---- MODULE Spec2Model ----
(***************************************************************************)
(* Bandicoot: the crash-log ingestion engine (bandicoot.py) and the web    *)
(* viewer's write surface (bandicoot_web/app.py).                          *)
(*                                                                         *)
(* Text is a sequence of tokens.  A token stands for a fixed piece of      *)
(* text: a word that is (part of) a label, ":", a whitespace character,    *)
(* the line break, or some other character.  The regular expressions of    *)
(* parse_crash_log are evaluated on tokens the way re.search evaluates     *)
(* them on characters.                                                     *)
(***************************************************************************)
EXTENDS Integers, Sequences, FiniteSets, TLC

(***************************************************************************)
(* Strings and Python values                                               *)
(***************************************************************************)

\* Python's None and a str value; `if not x` is true of None and of "".
None == [isNone |-> TRUE, v |-> <<>>]

Str(s) == [isNone |-> FALSE, v |-> s]

Truthy(x) == ~x.isNone /\ x.v # <<>>

\* \s of the re module, among the tokens of the model.
IsWs(t) == t \in {" ", "\t"}

\* The sentinels of parse_crash_log.
Unknown == <<"Unknown">>

ErrorSentinel == <<"Error">>

ErrorLoadingLog == <<"Error loading log">>

\* The label alternatives of the four regular expressions, in their order.
TimeLabels == << <<"Date/", "Time">>, <<"Timestamp">>, <<"Time">> >>

ProcessLabels == << <<"Process">>, <<"Executable">>, <<"Application">> >>

ExceptionLabels == << <<"Exception", " ", "Type">>, <<"Fault", " ", "Type">>,
                      <<"Error", " ", "Type">> >>

ReasonLabels == << <<"Termination", " ", "Reason">>, <<"Cause">>, <<"Reason">> >>

\* str.splitlines(): the text cut at each line break; a trailing line break
\* opens no further line.
RECURSIVE splitlines(_)
splitlines(s) ==
    IF s = <<>> THEN <<>>
    ELSE LET brk == {i \in 1..Len(s) : s[i] = "\n"}
         IN IF brk = {} THEN <<s>>
            ELSE LET i == CHOOSE k \in brk : \A m \in brk : k <= m
                 IN <<SubSeq(s, 1, i - 1)>> \o splitlines(SubSeq(s, i + 1, Len(s)))

\* Does `line` hold `lab` at position i?
StartsWith(line, i, lab) ==
    /\ i + Len(lab) - 1 <= Len(line)
    /\ SubSeq(line, i, i + Len(lab) - 1) = lab

\* (lab):\s+(.+) tried at position i with the alternative lab: the label, a
\* colon, at least one whitespace character, at least one further character.
MatchesAt(line, i, lab) ==
    LET j == i + Len(lab)
    IN /\ StartsWith(line, i, lab)
       /\ j + 2 <= Len(line)
       /\ line[j] = ":"
       /\ IsWs(line[j + 1])

\* Variant: \s+ takes a single whitespace character.
Group2Short(line, i, lab) ==
    LET j == i + Len(lab)
    IN SubSeq(line, j + 2, Len(line))

\* group(2) of that match: \s+ is greedy and gives back only what (.+) needs,
\* one character; (.+) then runs to the end of the line.
Group2(line, i, lab) ==
    LET j == i + Len(lab)
        n == CHOOSE n \in 1..(Len(line) - j - 1) :
                /\ \A k \in 1..n : IsWs(line[j + k])
                /\ \A m \in (n + 1)..(Len(line) - j - 1) :
                      \E k \in 1..m : ~IsWs(line[j + k])
    IN SubSeq(line, j + n + 1, Len(line))

\* re.search(pattern, line): the leftmost position where an alternative
\* matches, the alternatives tried in order; None when there is none.
re_search(labels, line) ==
    LET hits == {i \in 1..Len(line) :
                    \E a \in 1..Len(labels) : MatchesAt(line, i, labels[a])}
    IN IF hits = {} THEN None
       ELSE LET i == CHOOSE k \in hits : \A m \in hits : k <= m
                a == CHOOSE k \in 1..Len(labels) :
                        /\ MatchesAt(line, i, labels[k])
                        /\ \A m \in 1..(k - 1) : ~MatchesAt(line, i, labels[m])
            IN Str(Group2(line, i, labels[a]))

\* Variant: without `if not f`, every matching line sets the field.
LatchLast(cur, labels, line) ==
    LET m == re_search(labels, line)
    IN IF Truthy(m) THEN m ELSE cur

\* One field's step of the loop body: `if not f: match = ...; if match: f = ...`.
Latch(cur, labels, line) ==
    IF ~Truthy(cur)
    THEN LET m == re_search(labels, line)
         IN IF ~m.isNone THEN m ELSE cur
    ELSE cur

\* The body of `for line in log_content.splitlines()`.
ScanLine(st, line) ==
    [crash_time         |-> Latch(st.crash_time, TimeLabels, line),
     process_name       |-> Latch(st.process_name, ProcessLabels, line),
     exception_type     |-> Latch(st.exception_type, ExceptionLabels, line),
     termination_reason |-> Latch(st.termination_reason, ReasonLabels, line)]

RECURSIVE ScanLines(_, _)
ScanLines(st, lines) ==
    IF lines = <<>> THEN st
    ELSE ScanLines(ScanLine(st, Head(lines)), Tail(lines))

\* Variant: no default for a field that was not found.
OrUnknownEmpty(x) == IF Truthy(x) THEN x.v ELSE <<>>

\* `x if x else "Unknown"`.
OrUnknown(x) == IF Truthy(x) THEN x.v ELSE Unknown

\* A file on disk: absent, a readable text, or one whose open/read fails
\* with the exception whose str() is err.
AbsentFile == [kind |-> "absent", content |-> <<>>, err |-> <<>>]

TextFile(t) == [kind |-> "text", content |-> t, err |-> <<>>]

BadFile(e) == [kind |-> "unreadable", content |-> <<>>, err |-> e]

\* Variant: the exception leaves parse_crash_log.
ErrorRecordRaises(file_path, f) ==
    [raised             |-> TRUE,
     crash_time         |-> ErrorSentinel,
     process_name       |-> ErrorSentinel,
     exception_type     |-> f.err,
     termination_reason |-> ErrorSentinel,
     file_path          |-> file_path,
     log_content        |-> ErrorLoadingLog]

\* The except branch of parse_crash_log.
ErrorRecord(file_path, f) ==
    [raised             |-> FALSE,
     crash_time         |-> ErrorSentinel,
     process_name       |-> ErrorSentinel,
     exception_type     |-> f.err,
     termination_reason |-> ErrorSentinel,
     file_path          |-> file_path,
     log_content        |-> ErrorLoadingLog]

\* parse_crash_log(file_path) on the file f found at that path.  `raised`
\* tells whether an exception left the function (it never does).
parse_crash_log(file_path, f) ==
    IF f.kind = "text"
    THEN LET st == ScanLines([crash_time |-> None, process_name |-> None,
                              exception_type |-> None,
                              termination_reason |-> None],
                             splitlines(f.content))
         IN [raised             |-> FALSE,
             crash_time         |-> OrUnknown(st.crash_time),
             process_name       |-> OrUnknown(st.process_name),
             exception_type     |-> OrUnknown(st.exception_type),
             termination_reason |-> OrUnknown(st.termination_reason),
             file_path          |-> file_path,
             log_content        |-> f.content]
    ELSE ErrorRecord(file_path, f)

(***************************************************************************)
(* The environment: report files, the store's directory, the store         *)
(***************************************************************************)

\* A protected file: its text can be read by the superuser only.
ProtectedFile(t) == [kind |-> "protected", content |-> t, err |-> <<>>]

\* str(e) of the failures of open(): permission denied, and a path that
\* cannot be opened as a file by anybody.
EACCES == <<"[Errno 13] Permission denied">>

EISDIR == <<"[Errno 21] Is a directory">>

\* What open(file_path, "r", errors="ignore") gives a process of that euid.
OpenAs(f, euid0) ==
    IF f.kind = "protected"
    THEN IF euid0 THEN TextFile(f.content) ELSE BadFile(EACCES)
    ELSE f

\* os.access(path, os.R_OK).
os_access(f, euid0) == f.kind # "protected" \/ euid0

\* The report files: one in the user's DiagnosticReports, one in the system's.
\* glob lists the user patterns first (USER_CRASH_LOGS + SYSTEM_CRASH_LOGS).
AllPaths == <<"u1", "s1">>

Paths == {AllPaths[i] : i \in 1..Len(AllPaths)}

IsSystem(p) == p = "s1"

\* The texts report files hold in the store specification.
T1 == <<"Date/", "Time", ":", " ", "a", "\n", "Process", ":", " ", "b">>

T2 == <<"x", "\n", "Reason", ":", " ", " ", "c">>

\* What each path may hold.
FileStates(p) ==
    IF IsSystem(p)
    THEN {AbsentFile, TextFile(T1), ProtectedFile(T1)}
    ELSE {AbsentFile, TextFile(T2), BadFile(EISDIR)}

RECURSIVE SelectSeq2(_, _)
SelectSeq2(s, keep) ==
    IF s = <<>> THEN <<>>
    ELSE (IF Head(s) \in keep THEN <<Head(s)>> ELSE <<>>)
         \o SelectSeq2(Tail(s), keep)

\* sum([glob.glob(path) for path in patterns], []): the files that exist.
glob_all(fs) == SelectSeq2(AllPaths, {p \in Paths : fs[p].kind # "absent"})

glob_system(fs) ==
    SelectSeq2(AllPaths, {p \in Paths : fs[p].kind # "absent" /\ IsSystem(p)})

(***************************************************************************)
(* The SQLite store                                                        *)
(***************************************************************************)

Range(s) == {s[i] : i \in 1..Len(s)}

BaseCols == <<"id", "crash_time", "process_name", "exception_type",
              "termination_reason", "file_path">>

\* CREATE_TABLE_SQL.
FullCols == BaseCols \o <<"notation", "log_content">>

\* The columns INSERT_LOG_SQL names.
InsertCols == {"crash_time", "process_name", "exception_type",
               "termination_reason", "file_path", "log_content"}

\* SQL NULL, and the empty string.
Null == <<"<NULL>">>

EmptyStr == <<>>

\* No store file.
NoDb == [file |-> FALSE, table |-> FALSE, columns |-> <<>>, rows |-> {},
         seq |-> 0]

\* sqlite3.connect(db_path): opens the file, creating an empty one.
Connect(d) == IF d.file THEN d ELSE [NoDb EXCEPT !.file = TRUE]

\* cursor.execute(CREATE_TABLE_SQL): CREATE TABLE IF NOT EXISTS.
CreateTable(d) ==
    IF d.table THEN d ELSE [d EXCEPT !.table = TRUE, !.columns = FullCols]

\* PRAGMA table_info(crash_logs): the column names; none without the table.
TableInfo(d) == IF d.table THEN Range(d.columns) ELSE {}

\* Variant: the column is added by creating the table anew, without its rows.
AlterByRecreate(d, c, dflt) ==
    IF ~d.table THEN [ok |-> FALSE, why |-> "no such table", db |-> d]
    ELSE IF c \in Range(d.columns)
    THEN [ok |-> FALSE, why |-> "duplicate column name", db |-> d]
    ELSE [ok |-> TRUE, why |-> "none",
          db |-> [d EXCEPT !.columns = Append(d.columns, c), !.rows = {}]]

\* ALTER TABLE crash_logs ADD COLUMN c [DEFAULT dflt]: fails without the
\* table and on a column the table already has; the rows take the default.
AlterAddColumn(d, c, dflt) ==
    IF ~d.table THEN [ok |-> FALSE, why |-> "no such table", db |-> d]
    ELSE IF c \in Range(d.columns)
    THEN [ok |-> FALSE, why |-> "duplicate column name", db |-> d]
    ELSE [ok |-> TRUE, why |-> "none",
          db |-> [d EXCEPT
                    !.columns = Append(d.columns, c),
                    !.rows = {[x \in DOMAIN r \cup {c} |->
                                  IF x = c THEN dflt ELSE r[x]] : r \in d.rows}]]

\* Variant: the column is added without looking at PRAGMA table_info.
EnsureFieldNoCheck(d, c, dflt) == AlterAddColumn(Connect(d), c, dflt)

\* ensure_notation_field / ensure_log_content_field: the column is added
\* only when PRAGMA table_info does not list it.
EnsureField(d, c, dflt) ==
    IF c \notin TableInfo(Connect(d))
    THEN AlterAddColumn(Connect(d), c, dflt)
    ELSE [ok |-> TRUE, why |-> "none", db |-> Connect(d)]

ensure_notation_field(d) == EnsureField(d, "notation", EmptyStr)

ensure_log_content_field(d) == EnsureField(d, "log_content", Null)

\* The last two lines of setup_bandicoot_directory: the two column checks,
\* the second not reached when the first raises.
ensure_fields(d) ==
    LET n == ensure_notation_field(d)
    IN IF ~n.ok THEN n ELSE ensure_log_content_field(n.db)

\* The rows' file_path values and ids.
PathsOf(rows) == {r.file_path : r \in rows}

IdsOf(rows) == {r.id : r \in rows}

MaxOf(S) == CHOOSE x \in S : \A y \in S : y <= x

\* The id AUTOINCREMENT gives the next row: above every id of the table and
\* above sqlite_sequence.
NextId(d, pend) == MaxOf({d.seq} \cup IdsOf(d.rows) \cup IdsOf(pend)) + 1

\* The row INSERT_LOG_SQL stores for `log`: notation takes its default ''.
NewRow(id, log, cols) ==
    [c \in Range(cols) |->
        CASE c = "id" -> id
          [] c = "notation" -> EmptyStr
          [] OTHER -> log[c]]

(***************************************************************************)
(* Setup and wipe                                                          *)
(***************************************************************************)

\* The answers input() can give: yes, anything else, or no input (EOFError).
Answers == {"yes", "no", "eof"}

\* setup_bandicoot_directory(db_path), from the directory dirE and store d,
\* in a process of that euid, with the answers to its two prompts.
setup_bandicoot_directory(dirE, d, euid0, danger, guardAns, firstAns) ==
    IF (euid0 \/ danger) /\ guardAns # "yes"
    THEN [outcome |-> IF guardAns = "eof" THEN "EOFError" ELSE "exit1",
          dirExists |-> dirE, db |-> d]
    ELSE IF ~dirE /\ firstAns # "yes"
    THEN [outcome |-> IF firstAns = "eof" THEN "EOFError" ELSE "exit1",
          dirExists |-> dirE, db |-> d]
    ELSE LET d1 == IF ~d.file THEN CreateTable(Connect(d)) ELSE d
             e  == ensure_fields(d1)
         IN [outcome |-> IF e.ok THEN "ok" ELSE e.why, dirExists |-> TRUE,
             db |-> e.db]

\* wipe_database(db_path): os.remove the store file, os.rmdir its directory
\* (which fails on a directory that holds other entries), then set up afresh.
wipe_database(dirE, dirO, d, euid0, danger, guardAns, firstAns) ==
    IF dirE /\ dirO
    THEN [outcome |-> "OSError: Directory not empty", dirExists |-> dirE,
          db |-> NoDb]
    ELSE setup_bandicoot_directory(FALSE, NoDb, euid0, danger, guardAns, firstAns)

(***************************************************************************)
(* State                                                                   *)
(***************************************************************************)

VARIABLES
    files,           \* the report file at each path
    danger,          \* the store's directory is "/" or "/root"
    dirExists,       \* the store's directory exists
    dirOther,        \* it holds entries other than the store file
    db,              \* the store file: its committed content
    pending,         \* rows inserted in the open transaction, uncommitted
    pc,              \* where the running process stands
    args,            \* its --wipe flag, whether --db-path was given, its
                     \*   euid, and how many processes wait for it in
                     \*   request_sudo
    direct,          \* store_crash_logs was called on its own, not by main
    parsed_logs,     \* the batch handed to store_crash_logs
    existing_files,  \* store_crash_logs' set of known paths
    new_logs,        \* its list of inserted records
    k,               \* its position in the batch
    total_logs,      \* its count
    err,             \* the exception that ended the process, and
    status,          \* its exit status
    pathsBefore,     \* history: the stored paths as store_crash_logs was entered
    last,            \* history: the last run's result, while nothing has
                     \*   changed the set of files or the rows since
    prev             \* history: the result of the run this run follows

vars == <<files, danger, dirExists, dirOther, db, pending, pc, args, direct,
          parsed_logs, existing_files, new_logs, k, total_logs, err, status,
          pathsBefore, last, prev>>

envVars == <<files, danger, dirOther>>

runVars == <<parsed_logs, existing_files, new_logs, k, total_logs>>

\* The process has ended, or none has started.
Terminal == {"idle", "done", "exit", "crash"}

\* No result: valid when main() completed, with its total and the rows it
\* left; cut is the number of inserts a run had executed in its open
\* transaction when it was interrupted, -1 for a run that was not.
NoPrev == [valid |-> FALSE, total |-> 0, rows |-> {}, cut |-> -1]

NoArgs == [wipe |-> FALSE, explicit |-> FALSE, euid0 |-> FALSE, depth |-> 0]

\* A store left by an older version: the table without notation and/or
\* log_content, empty or with one record.
OldRow(cols) ==
    [c \in Range(cols) |->
        CASE c = "id" -> 1
          [] c = "file_path" -> "u1"
          [] c = "notation" -> EmptyStr
          [] OTHER -> <<"old">>]

OldStores ==
    {[file |-> TRUE, table |-> TRUE, columns |-> BaseCols \o x,
      rows |-> IF withRow THEN {OldRow(BaseCols \o x)} ELSE {},
      seq |-> IF withRow THEN 1 ELSE 0] :
        x \in {<<>>, <<"notation">>, <<"log_content">>,
               <<"notation", "log_content">>},
        withRow \in BOOLEAN}

Init ==
    /\ files = [p \in Paths |-> AbsentFile]
    /\ danger \in BOOLEAN
    /\ db \in (IF danger THEN {NoDb} ELSE {NoDb} \cup OldStores)
    /\ dirExists \in (IF db.file \/ danger THEN {TRUE} ELSE BOOLEAN)
    /\ dirOther \in (IF danger THEN {TRUE}
                     ELSE IF dirExists /\ ~db.file THEN BOOLEAN ELSE {FALSE})
    /\ pending = {}
    /\ pc = "idle"
    /\ args = NoArgs
    /\ direct = FALSE
    /\ parsed_logs = <<>>
    /\ existing_files = {}
    /\ new_logs = <<>>
    /\ k = 0
    /\ total_logs = 0
    /\ err = "none"
    /\ status = 0
    /\ pathsBefore = {}
    /\ last = NoPrev
    /\ prev = NoPrev

(***************************************************************************)
(* The environment's actions                                               *)
(***************************************************************************)

\* A report file appears, disappears or changes while no run is under way.
FileChange(p, f) ==
    /\ pc = "idle"
    /\ files[p] # f
    /\ files' = [files EXCEPT ![p] = f]
    /\ last' = IF files[p].kind = "absent" <=> f.kind = "absent"
               THEN last ELSE NoPrev
    /\ UNCHANGED <<danger, dirExists, dirOther, db, pending, pc, args, direct,
                   runVars, err, status, pathsBefore, prev>>

\* The viewer's get_db_connection(): sqlite3.connect on the store path.
\* Nothing is opened in a directory that does not exist.
get_db_connection(d) == IF dirExists THEN Connect(d) ELSE d

\* Variant: the UPDATE has no WHERE clause.
UpdateNotationAll(d, log_id, notation) ==
    IF d.table /\ "notation" \in Range(d.columns)
    THEN [d EXCEPT !.rows = {[r EXCEPT !["notation"] = notation] : r \in d.rows}]
    ELSE d

\* The viewer's update(): UPDATE crash_logs SET notation = ? WHERE id = ?.
\* It fails without the table or the column, and while a writer holds the
\* store; it changes the rows of that id.
UpdateNotation(d, log_id, notation) ==
    IF d.table /\ "notation" \in Range(d.columns)
    THEN [d EXCEPT !.rows = {IF r.id = log_id
                             THEN [r EXCEPT !["notation"] = notation]
                             ELSE r : r \in d.rows}]
    ELSE d

\* The ids and the notations the viewer's form may post.
LogIds == 1..3

Notations == {EmptyStr, <<"note">>}

ViewerUpdate(log_id, notation) ==
    /\ pending = {}
    /\ db' = UpdateNotation(get_db_connection(db), log_id, notation)
    /\ db' # db
    /\ last' = NoPrev
    /\ prev' = NoPrev
    /\ UNCHANGED <<envVars, dirExists, pending, pc, args, direct, runVars, err,
                   status, pathsBefore>>

(***************************************************************************)
(* main()                                                                  *)
(***************************************************************************)

\* The process ends with an exception: its open transaction is rolled back.
Crash(e) ==
    /\ pc' = "crash"
    /\ err' = e
    /\ status' = 1
    /\ pending' = {}

\* bandicoot.py [--wipe] [--db-path PATH], run by the superuser or not.
\* The store is at the default path, or at the path given; the default
\* path is in neither "/" nor "/root".
Start(wipe, explicit, euid0) ==
    /\ pc = "idle"
    /\ danger => explicit
    /\ args' = [wipe |-> wipe, explicit |-> explicit, euid0 |-> euid0,
                depth |-> 0]
    /\ pc' = IF wipe THEN "wipe" ELSE "setup"
    /\ direct' = FALSE
    /\ parsed_logs' = <<>>
    /\ existing_files' = {}
    /\ new_logs' = <<>>
    /\ k' = 0
    /\ total_logs' = 0
    /\ err' = "none"
    /\ status' = 0
    /\ prev' = IF wipe THEN NoPrev ELSE last
    /\ last' = NoPrev
    /\ UNCHANGED <<envVars, dirExists, db, pending, pathsBefore>>

\* The outcome of a setup or wipe step: on to `next`, sys.exit(1), or an
\* exception.
Outcome(r, next) ==
    /\ dirExists' = r.dirExists
    /\ db' = r.db
    /\ IF r.outcome = "ok"
       THEN pc' = next /\ UNCHANGED <<err, status, pending>>
       ELSE IF r.outcome = "exit1"
       THEN pc' = "exit" /\ status' = 1 /\ UNCHANGED <<err, pending>>
       ELSE Crash(r.outcome)

\* if args.wipe: wipe_database(db_path)
Wipe ==
    /\ pc = "wipe"
    /\ \E guardAns \in Answers, firstAns \in Answers :
          Outcome(wipe_database(dirExists, dirOther, db, args.euid0, danger,
                                guardAns, firstAns), "setup")
    /\ UNCHANGED <<envVars, args, direct, runVars, pathsBefore, last, prev>>

\* setup_bandicoot_directory(db_path)
Setup ==
    /\ pc = "setup"
    /\ \E guardAns \in Answers, firstAns \in Answers :
          Outcome(setup_bandicoot_directory(dirExists, db, args.euid0, danger,
                                            guardAns, firstAns), "perm")
    /\ UNCHANGED <<envVars, args, direct, runVars, pathsBefore, last, prev>>

\* check_permissions(): True without system report files, else whether the
\* first of them can be read.
check_permissions(fs, euid0) ==
    LET test_files == glob_system(fs)
    IN IF test_files = <<>> THEN TRUE
       ELSE os_access(fs[test_files[1]], euid0)

\* if not check_permissions(): request_sudo(), which re-runs the script
\* under sudo and exits unless the process is the superuser's already.
CheckPermissions ==
    /\ pc = "perm"
    /\ pc' = IF ~check_permissions(files, args.euid0) /\ ~args.euid0
             THEN "sudo" ELSE "discover"
    /\ UNCHANGED <<envVars, dirExists, db, pending, args, direct, runVars, err,
                   status, pathsBefore, last, prev>>

\* subprocess.call(["sudo", sys.executable] + sys.argv); sys.exit().
\* With sudo granted the script runs again from the top as the superuser,
\* with the same arguments, while the caller waits in subprocess.call;
\* refused, only the exit is left.
RequestSudo ==
    /\ pc = "sudo"
    /\ \/ /\ args' = [args EXCEPT !.euid0 = TRUE, !.depth = @ + 1]
          /\ pc' = IF args.wipe THEN "wipe" ELSE "setup"
          /\ UNCHANGED status
       \/ /\ pc' = "exit"
          /\ status' = 0
          /\ UNCHANGED args
    /\ UNCHANGED <<envVars, dirExists, db, pending, direct, runVars, err,
                   pathsBefore, last, prev>>

\* all_logs = glob...; parsed_logs = [parse_crash_log(log) for log in all_logs]
ParseAll(fs, euid0) ==
    LET all_logs == glob_all(fs)
    IN [i \in 1..Len(all_logs) |->
          parse_crash_log(all_logs[i], OpenAs(fs[all_logs[i]], euid0))]

Discover ==
    /\ pc = "discover"
    /\ LET logs == ParseAll(files, args.euid0)
       IN IF \E i \in 1..Len(logs) : logs[i].raised
          THEN Crash("Exception") /\ UNCHANGED <<parsed_logs, pathsBefore>>
          ELSE /\ parsed_logs' = logs
               /\ pc' = "persist"
               /\ pathsBefore' = PathsOf(db.rows)
               /\ UNCHANGED <<err, status, pending>>
    /\ UNCHANGED <<envVars, dirExists, db, args, direct, existing_files,
                   new_logs, k, total_logs, last, prev>>

(***************************************************************************)
(* store_crash_logs(db_path, logs)                                         *)
(***************************************************************************)

MaxBatch == 2

\* The records a caller may hand over: what parse_crash_log returns.
BatchRecords == {parse_crash_log(p, TextFile(T1)) : p \in Paths}

Batches == UNION {[1..n -> BatchRecords] : n \in 0..MaxBatch}

\* store_crash_logs called on its own with any batch.
PersistCall(batch) ==
    /\ pc = "idle"
    /\ pc' = "persist"
    /\ direct' = TRUE
    /\ parsed_logs' = batch
    /\ existing_files' = {}
    /\ new_logs' = <<>>
    /\ k' = 0
    /\ total_logs' = 0
    /\ err' = "none"
    /\ status' = 0
    /\ pathsBefore' = PathsOf(db.rows)
    /\ last' = NoPrev
    /\ prev' = NoPrev
    /\ UNCHANGED <<envVars, dirExists, db, pending, args>>

\* connect; CREATE TABLE IF NOT EXISTS; existing_files = {the stored paths}.
PersistBegin ==
    /\ pc = "persist"
    /\ IF ~dirExists
       THEN Crash("unable to open database file")
            /\ UNCHANGED <<db, existing_files, k>>
       ELSE /\ db' = CreateTable(Connect(db))
            /\ existing_files' = PathsOf(db.rows)
            /\ k' = 1
            /\ pc' = "insert"
            /\ UNCHANGED <<err, status, pending>>
    /\ UNCHANGED <<envVars, dirExists, args, direct, parsed_logs, new_logs,
                   total_logs, pathsBefore, last, prev>>

\* Variant: file_path is not UNIQUE.
InsertErrorNoUnique(d, pend, log) ==
    IF ~(InsertCols \subseteq Range(d.columns)) THEN "no such column"
    ELSE "none"

\* INSERT_LOG_SQL for `log` inside the transaction: it fails on a table
\* without a named column and on a file_path the table already holds.
InsertError(d, pend, log) ==
    IF ~(InsertCols \subseteq Range(d.columns)) THEN "no such column"
    ELSE IF log.file_path \in PathsOf(d.rows \cup pend)
    THEN "UNIQUE constraint failed"
    ELSE "none"

\* Variant: no record is taken for known.
SkipKnown(log, known) == FALSE

\* if log["file_path"] not in existing_files
IsKnown(log, known) == log.file_path \in known

\* The body of `for log in logs`.  Nothing catches a failed INSERT.
PersistInsert ==
    /\ pc = "insert"
    /\ k <= Len(parsed_logs)
    /\ LET log == parsed_logs[k]
       IN IF IsKnown(log, existing_files)
          THEN /\ k' = k + 1
               /\ UNCHANGED <<pc, err, status, pending, new_logs>>
          ELSE IF InsertError(db, pending, log) # "none"
          THEN Crash(InsertError(db, pending, log)) /\ UNCHANGED <<k, new_logs>>
          ELSE /\ pending' = pending \cup
                      {NewRow(NextId(db, pending), log, db.columns)}
               /\ new_logs' = Append(new_logs, log)
               /\ k' = k + 1
               /\ UNCHANGED <<pc, err, status>>
    /\ UNCHANGED <<envVars, dirExists, db, args, direct, parsed_logs,
                   existing_files, total_logs, pathsBefore, last, prev>>

\* Variant: the rows are counted before the commit, by another connection.
CountLogsStale(d, pend) == Cardinality(d.rows)

\* COUNT_LOGS_SQL, as this connection reads it after its commit.
CountLogs(d, pend) == Cardinality(d.rows \cup pend)

\* conn.commit(); total_logs = SELECT COUNT(*); return total_logs, new_logs
PersistCommit ==
    /\ pc = "insert"
    /\ k > Len(parsed_logs)
    /\ db' = [db EXCEPT !.rows = db.rows \cup pending,
                        !.seq = MaxOf({db.seq} \cup IdsOf(pending))]
    /\ pending' = {}
    /\ total_logs' = CountLogs(db, pending)
    /\ pc' = "done"
    /\ last' = [valid |-> ~direct, total |-> CountLogs(db, pending),
                rows |-> db.rows \cup pending, cut |-> -1]
    /\ UNCHANGED <<envVars, dirExists, args, direct, parsed_logs,
                   existing_files, new_logs, k, err, status, pathsBefore, prev>>

\* Variant: the inserts executed before the interruption stay in the store
\* file, neither committed nor rolled back.
InterruptNoRollback ==
    /\ pc \in {"persist", "insert", "done"}
    /\ ~direct
    /\ pc' = "crash"
    /\ err' = "KeyboardInterrupt"
    /\ status' = 1
    /\ last' = [last EXCEPT !.cut = Cardinality(pending)]
    /\ UNCHANGED <<envVars, dirExists, db, pending, args, direct, runVars,
                   pathsBefore, prev>>

\* A run of main() is interrupted (KeyboardInterrupt, a signal) inside
\* store_crash_logs: before the first INSERT, between two of them, before
\* conn.commit() or after it.  Nothing in store_crash_logs catches it; the
\* transaction that was open is rolled back, what was committed stays.
Interrupt ==
    /\ pc \in {"persist", "insert", "done"}
    /\ ~direct
    /\ Crash("KeyboardInterrupt")
    /\ last' = [last EXCEPT !.cut = Cardinality(pending)]
    /\ UNCHANGED <<envVars, dirExists, db, args, direct, runVars, pathsBefore,
                   prev>>

\* Variant: request_sudo returns to main() once the child has ended.
SudoReturnToMain ==
    /\ pc \in {"done", "exit", "crash"}
    /\ args.depth > 0
    /\ pc' = "discover"
    /\ args' = [args EXCEPT !.euid0 = FALSE, !.depth = @ - 1]
    /\ direct' = FALSE
    /\ parsed_logs' = <<>>
    /\ existing_files' = {}
    /\ new_logs' = <<>>
    /\ k' = 0
    /\ total_logs' = 0
    /\ err' = "none"
    /\ status' = 0
    /\ pathsBefore' = {}
    /\ prev' = NoPrev
    /\ UNCHANGED <<envVars, dirExists, db, pending, last>>

\* The process that request_sudo started has ended, however it did:
\* subprocess.call returns in the caller, whose locals are those it had
\* before, and sys.exit() ends it with status 0.
SudoReturn ==
    /\ pc \in {"done", "exit", "crash"}
    /\ args.depth > 0
    /\ pc' = "exit"
    /\ args' = [args EXCEPT !.euid0 = FALSE, !.depth = @ - 1]
    /\ direct' = FALSE
    /\ parsed_logs' = <<>>
    /\ existing_files' = {}
    /\ new_logs' = <<>>
    /\ k' = 0
    /\ total_logs' = 0
    /\ err' = "none"
    /\ status' = 0
    /\ pathsBefore' = {}
    /\ prev' = NoPrev
    /\ UNCHANGED <<envVars, dirExists, db, pending, last>>

\* The process is gone: it returned from main(), called sys.exit() or died
\* of an exception.  Nothing of it is left but the files it wrote.
ProcessExit ==
    /\ pc \in {"done", "exit", "crash"}
    /\ args.depth = 0
    /\ pc' = "idle"
    /\ args' = NoArgs
    /\ direct' = FALSE
    /\ parsed_logs' = <<>>
    /\ existing_files' = {}
    /\ new_logs' = <<>>
    /\ k' = 0
    /\ total_logs' = 0
    /\ err' = "none"
    /\ status' = 0
    /\ pathsBefore' = {}
    /\ prev' = NoPrev
    /\ UNCHANGED <<envVars, dirExists, db, pending, last>>

Next ==
    \/ \E p \in Paths : \E f \in FileStates(p) : FileChange(p, f)
    \/ \E log_id \in LogIds, notation \in Notations :
          ViewerUpdate(log_id, notation)
    \/ \E wipe \in BOOLEAN, explicit \in BOOLEAN, euid0 \in BOOLEAN :
          Start(wipe, explicit, euid0)
    \/ Wipe
    \/ Setup
    \/ CheckPermissions
    \/ RequestSudo
    \/ Discover
    \/ \E batch \in Batches : PersistCall(batch)
    \/ PersistBegin
    \/ PersistInsert
    \/ PersistCommit
    \/ Interrupt
    \/ SudoReturn
    \/ ProcessExit

Spec == Init /\ [][Next]_vars

(***************************************************************************)
(* parse_crash_log on its own: one report file of any of the texts below,  *)
(* parsed by main()'s parsing step.                                        *)
(***************************************************************************)

MaxLines == 3

\* Lines: a label, ":", and what follows the colon: a value right away, after
\* one or two whitespace characters, whitespace only, or a single space.
LineLabels == {<<"Time">>, <<"Process">>}

LineTails == {<<"a">>, <<" ", "a">>, <<" ", "\t", "b", " ">>, <<" ", "\t">>,
              <<" ">>}

\* And a label of two words, a label after other text, a line with no label.
ParseLines ==
    {lab \o <<":">> \o tail : lab \in LineLabels, tail \in LineTails}
    \cup {<<"Date/", "Time", ":", " ", "a">>,
          <<"Date/", "Process", ":", " ", "a">>,
          <<"x">>}

RECURSIVE JoinLines(_)
JoinLines(ls) ==
    IF ls = <<>> THEN <<>>
    ELSE IF Len(ls) = 1 THEN ls[1]
    ELSE ls[1] \o <<"\n">> \o JoinLines(Tail(ls))

ParseTexts == {JoinLines(ls) : ls \in UNION {[1..n -> ParseLines] : n \in 0..MaxLines}}

FullStore == [file |-> TRUE, table |-> TRUE, columns |-> FullCols, rows |-> {},
              seq |-> 0]

InitParse ==
    /\ \E f \in {TextFile(t) : t \in ParseTexts} \cup {BadFile(EISDIR)} :
          files = [p \in Paths |-> IF p = "u1" THEN f ELSE AbsentFile]
    /\ danger = FALSE
    /\ db = FullStore
    /\ dirExists = TRUE
    /\ dirOther = FALSE
    /\ pending = {}
    /\ pc = "discover"
    /\ args = NoArgs
    /\ direct = FALSE
    /\ parsed_logs = <<>>
    /\ existing_files = {}
    /\ new_logs = <<>>
    /\ k = 0
    /\ total_logs = 0
    /\ err = "none"
    /\ status = 0
    /\ pathsBefore = {}
    /\ last = NoPrev
    /\ prev = NoPrev

NextParse == Discover

SpecParse == InitParse /\ [][NextParse]_vars

\* The parsed record and the lines of the file it was parsed from.
Parsed == parsed_logs[1]

SourceLines == splitlines(files["u1"].content)

HasParsedText == pc = "persist" /\ files["u1"].kind = "text"

FieldNames == {"crash_time", "process_name", "exception_type",
               "termination_reason"}

LabelsOf(field) ==
    CASE field = "crash_time" -> TimeLabels
      [] field = "process_name" -> ProcessLabels
      [] field = "exception_type" -> ExceptionLabels
      [] field = "termination_reason" -> ReasonLabels

\* The lines of `lines` that match the field's pattern.
MatchingLines(field, lines) ==
    {i \in 1..Len(lines) : ~re_search(LabelsOf(field), lines[i]).isNone}

(***************************************************************************)
(* C7  In parse_crash_log each of the four fields, on its own, takes its   *)
(* value from the first line of the file that matches the field's pattern; *)
(* a later matching line never changes it, whatever the other fields       *)
(* matched; with no matching line the field is "Unknown".                  *)
(***************************************************************************)
C7_FirstMatchWins ==
    HasParsedText =>
        \A field \in FieldNames :
            LET M == MatchingLines(field, SourceLines)
            IN IF M = {} THEN Parsed[field] = Unknown
               ELSE Parsed[field] =
                        re_search(LabelsOf(field),
                                  SourceLines[CHOOSE i \in M : \A j \in M : i <= j]).v

\* Two lines match crash_time with different values, the first one's value
\* is kept, and process_name was resolved by a line of its own.
C7_Witness ==
    /\ HasParsedText
    /\ \E i, j \in MatchingLines("crash_time", SourceLines) :
          /\ i < j
          /\ re_search(TimeLabels, SourceLines[i]) # re_search(TimeLabels, SourceLines[j])
          /\ Parsed.crash_time = re_search(TimeLabels, SourceLines[i]).v
    /\ Parsed.process_name # Unknown

(***************************************************************************)
(* C8  As claimed: a line "Label:<rest>" gives the field <rest> with a     *)
(* single leading space removed, for any amount of whitespace after the    *)
(* colon, none and more than one included.                                 *)
(***************************************************************************)

\* The line begins with one of the field's labels and a colon.
BeginsWithLabel(field, line) ==
    \E a \in 1..Len(LabelsOf(field)) :
        /\ StartsWith(line, 1, LabelsOf(field)[a])
        /\ Len(line) > Len(LabelsOf(field)[a])
        /\ line[Len(LabelsOf(field)[a]) + 1] = ":"

\* What follows that label and colon.
AfterLabel(field, line) ==
    LET a == CHOOSE a \in 1..Len(LabelsOf(field)) :
                StartsWith(line, 1, LabelsOf(field)[a])
    IN SubSeq(line, Len(LabelsOf(field)[a]) + 2, Len(line))

StripOneSpace(s) == IF s # <<>> /\ s[1] = " " THEN Tail(s) ELSE s

\* All leading whitespace removed, but never the last character.
RECURSIVE StripLeadingWs(_)
StripLeadingWs(s) ==
    IF Len(s) >= 2 /\ IsWs(s[1]) THEN StripLeadingWs(Tail(s)) ELSE s

\* The first line of the file that begins with a label of the field.
FirstLabelLine(field, lines) ==
    LET B == {i \in 1..Len(lines) : BeginsWithLabel(field, lines[i])}
    IN CHOOSE i \in B : \A j \in B : i <= j

C8_AsClaimed ==
    HasParsedText =>
        \A field \in FieldNames :
            (\E i \in 1..Len(SourceLines) : BeginsWithLabel(field, SourceLines[i]))
            => Parsed[field] =
                 StripOneSpace(AfterLabel(field,
                     SourceLines[FirstLabelLine(field, SourceLines)]))

(***************************************************************************)
(* C8 (amended)  A line that begins with a label of the field, a colon, at *)
(* least one whitespace character and at least one further character, and  *)
(* that no earlier line of the file matched the field before, gives the    *)
(* field the text after the colon with all its leading whitespace removed  *)
(* (the last character of the line is never removed).                      *)
(***************************************************************************)
C8_ValueAfterWhitespace ==
    HasParsedText =>
        \A field \in FieldNames :
            \A i \in 1..Len(SourceLines) :
                LET line == SourceLines[i]
                    rest == AfterLabel(field, line)
                    recognised == /\ BeginsWithLabel(field, line)
                                  /\ Len(rest) >= 2
                                  /\ IsWs(rest[1])
                IN (recognised /\ \A j \in 1..(i - 1) :
                                      j \notin MatchingLines(field, SourceLines))
                   => Parsed[field] = StripLeadingWs(rest)

\* The value follows two whitespace characters and both are removed.
C8_Witness ==
    /\ HasParsedText
    /\ \E i \in 1..Len(SourceLines) :
          /\ BeginsWithLabel("process_name", SourceLines[i])
          /\ AfterLabel("process_name", SourceLines[i]) = <<" ", "\t", "b", " ">>
    /\ Parsed.process_name = <<"b", " ">>

(***************************************************************************)
(* C9  A field none of whose labels stands in any line of the file is      *)
(* "Unknown", and each of the four fields of every record parse_crash_log  *)
(* returns is a non-empty string.                                          *)
(***************************************************************************)

\* The label stands somewhere in the line.
Occurs(lab, line) == \E i \in 1..Len(line) : StartsWith(line, i, lab)

CarriesLabel(field, line) ==
    \E a \in 1..Len(LabelsOf(field)) : Occurs(LabelsOf(field)[a], line)

C9_UnknownWithoutLabel ==
    pc = "persist" =>
        /\ \A field \in FieldNames : Parsed[field] # <<>>
        /\ files["u1"].kind = "text" =>
              \A field \in FieldNames :
                  (\A i \in 1..Len(SourceLines) : ~CarriesLabel(field, SourceLines[i]))
                  => Parsed[field] = Unknown

\* A file with lines, one resolving crash_time, none with a process label.
C9_Witness ==
    /\ HasParsedText
    /\ Len(SourceLines) >= 2
    /\ \A i \in 1..Len(SourceLines) : ~CarriesLabel("process_name", SourceLines[i])
    /\ Parsed.process_name = Unknown
    /\ Parsed.crash_time # Unknown

(***************************************************************************)
(* C2  Whenever store_crash_logs returns, whatever the batch and the store *)
(* it was called on, total_logs is the number of rows the store then       *)
(* holds, and no record of new_logs has a file_path that was stored when   *)
(* the call began.                                                         *)
(***************************************************************************)
C2_TotalAndInserted ==
    pc = "done" =>
        /\ total_logs = Cardinality(db.rows)
        /\ \A i \in 1..Len(new_logs) : new_logs[i].file_path \notin pathsBefore

\* A call that returned after inserting one record and skipping another.
C2_Witness ==
    /\ pc = "done"
    /\ Len(new_logs) >= 1
    /\ Len(new_logs) < Len(parsed_logs)
    /\ pathsBefore # {}
    /\ total_logs >= 2

(***************************************************************************)
(* C1  A run of main() without --wipe that follows a completed run, with   *)
(* the set of report files and the rows untouched in between, goes through *)
(* store_crash_logs without an insert failure and returns no new record,   *)
(* the total of the run before, and leaves the rows as that run left them. *)
(***************************************************************************)
C1_SecondRunNoOp ==
    prev.valid =>
        /\ pc = "crash" => err # "UNIQUE constraint failed"
        /\ pc = "done" =>
              /\ new_logs = <<>>
              /\ total_logs = prev.total
              /\ db.rows = prev.rows

\* A second run that completed over a store the first run filled.
C1_Witness ==
    /\ pc = "done"
    /\ prev.valid
    /\ prev.total >= 2
    /\ Len(parsed_logs) >= 2

(***************************************************************************)
(* C3  In every state of the store, the rows of an open transaction        *)
(* included, no two rows have the same file_path.                          *)
(***************************************************************************)
C3_UniqueFilePath ==
    \A r1, r2 \in db.rows \cup pending :
        r1.file_path = r2.file_path => r1 = r2

\* A record is stored, and the second INSERT of another path within one
\* transaction has been refused.
C3_Witness ==
    /\ pc = "crash"
    /\ err = "UNIQUE constraint failed"
    /\ db.rows # {}
    /\ k = 2

(***************************************************************************)
(* C4  As claimed: a failed INSERT of one record does not abort the batch; *)
(* store_crash_logs still returns, and every record of the batch is then   *)
(* stored.                                                                 *)
(***************************************************************************)
C4_AsClaimed ==
    (pc = "done" \/ (pc = "crash" /\ err = "UNIQUE constraint failed")) =>
        /\ pc = "done"
        /\ \A i \in 1..Len(parsed_logs) :
              parsed_logs[i].file_path \in PathsOf(db.rows)

(***************************************************************************)
(* C5  However often setup has run on a store, its two column checks never *)
(* fail with a duplicate-column error; on every store with the table they  *)
(* leave exactly one notation and one log_content column, and run once     *)
(* more they change nothing.                                               *)
(***************************************************************************)
Count(c, cols) == Cardinality({i \in 1..Len(cols) : cols[i] = c})

C5_SchemaManagerIdempotent ==
    /\ err # "duplicate column name"
    /\ pc = "perm" =>
          Count("notation", db.columns) = 1 /\ Count("log_content", db.columns) = 1
    /\ db.table =>
          LET once  == ensure_fields(db)
              again == ensure_fields(once.db)
          IN /\ once.ok
             /\ Count("notation", once.db.columns) = 1
             /\ Count("log_content", once.db.columns) = 1
             /\ again.ok
             /\ again.db = once.db

\* Setup has run again, after a completed run, on a store that an earlier
\* setup migrated from a schema without notation.
C5_Witness ==
    /\ pc = "perm"
    /\ prev.valid
    /\ db.columns = BaseCols \o <<"log_content", "notation">>

(***************************************************************************)
(* C6  A setup step on a store that has the table keeps every column in    *)
(* its place, adds notation and log_content where missing and no other     *)
(* column, and keeps every row with every value it had.                    *)
(***************************************************************************)
Restrict(r, cols) == [c \in cols |-> r[c]]

C6_MigrationPreserves ==
    [][(pc = "setup" /\ pc' # "setup" /\ db.table) =>
          /\ db'.table
          /\ SubSeq(db'.columns, 1, Len(db.columns)) = db.columns
          /\ Range(db'.columns) \subseteq
                Range(db.columns) \cup {"notation", "log_content"}
          /\ pc' = "perm" =>
                /\ {"notation", "log_content"} \subseteq Range(db'.columns)
                /\ Len(db'.columns) = Cardinality(Range(db'.columns))
          /\ Cardinality(db'.rows) = Cardinality(db.rows)
          /\ {Restrict(r, Range(db.columns)) : r \in db'.rows} = db.rows]_vars

\* Setup is done on a store that had a record and no notation column: the
\* record is there with its old values and the new column's default.
C6_Witness ==
    /\ pc = "perm"
    /\ db.columns = BaseCols \o <<"log_content", "notation">>
    /\ \E r \in db.rows :
          /\ r.crash_time = <<"old">>
          /\ r.log_content = <<"old">>
          /\ r.notation = EmptyStr

(***************************************************************************)
(* C10  parse_crash_log never raises: for a file that cannot be read it    *)
(* returns a record with exception_type the failure's description and      *)
(* crash_time, process_name and termination_reason "Error" (file_path is   *)
(* the path, log_content "Error loading log"); main() parses every file    *)
(* found, hands all the records to store_crash_logs, and every one of      *)
(* them is stored when the run completes.                                  *)
(***************************************************************************)
C10_ParseNeverRaises ==
    /\ err # "Exception"
    /\ (~direct /\ pc \in {"persist", "insert", "done"}) =>
          LET all_logs == glob_all(files)
          IN /\ Len(parsed_logs) = Len(all_logs)
             /\ \A i \in 1..Len(parsed_logs) :
                   LET f == OpenAs(files[all_logs[i]], args.euid0)
                       r == parsed_logs[i]
                   IN /\ ~r.raised
                      /\ r.file_path = all_logs[i]
                      /\ f.kind = "unreadable" =>
                            /\ r.exception_type = f.err
                            /\ r.crash_time = ErrorSentinel
                            /\ r.process_name = ErrorSentinel
                            /\ r.termination_reason = ErrorSentinel
                            /\ r.log_content = ErrorLoadingLog
    /\ (~direct /\ pc = "crash") =>
          err \notin {"UNIQUE constraint failed", "no such column",
                      "unable to open database file"}
    /\ (~direct /\ pc = "done") =>
          \A p \in Range(glob_all(files)) : p \in PathsOf(db.rows)

\* A completed run over an unreadable file and a readable one: the error
\* record and the other file's record were both inserted.
C10_Witness ==
    /\ pc = "done"
    /\ ~direct
    /\ Len(new_logs) = 2
    /\ new_logs[1].exception_type = EISDIR
    /\ new_logs[1].crash_time = ErrorSentinel
    /\ new_logs[2].crash_time = <<"a">>
    /\ PathsOf(db.rows) = Paths

(***************************************************************************)
(* C11  A process that is not the superuser's and finds the first system   *)
(* report file unreadable calls request_sudo; from there either sudo is    *)
(* refused and it exits, or the script is run once more as the superuser   *)
(* and, when that process has ended, the caller exits: it parses and       *)
(* stores nothing and never goes back into main().  The process started    *)
(* by request_sudo never calls sudo itself, so no chain of processes holds *)
(* more than one escalation.                                               *)
(***************************************************************************)
SystemProbeUnreadable == files["s1"].kind = "protected"

C11_EscalatesOnce ==
    [][/\ (pc = "perm" /\ SystemProbeUnreadable /\ ~args.euid0 /\ pc' # "perm")
             => pc' = "sudo"
       /\ (pc = "sudo" /\ pc' # "sudo") =>
             /\ args.depth = 0
             /\ SystemProbeUnreadable
             /\ \/ pc' = "exit" /\ args' = args
                \/ /\ pc' \in {"wipe", "setup"}
                   /\ args' = [args EXCEPT !.euid0 = TRUE, !.depth = 1]
       /\ args.depth > 0 => pc' # "sudo"
       /\ args'.depth <= 1
       /\ (args.depth = 1 /\ args'.depth = 0) =>
             /\ pc' = "exit"
             /\ parsed_logs' = <<>>
             /\ new_logs' = <<>>
             /\ db' = db
             /\ pending' = pending
       /\ pc = "exit" => pc' \in {"exit", "idle"}]_vars

\* The script was run again as the superuser, that run stored the protected
\* file's record and ended, and the caller has exited.
C11_Witness ==
    /\ pc = "exit"
    /\ args.depth = 0
    /\ ~args.euid0
    /\ last.valid
    /\ SystemProbeUnreadable
    /\ "s1" \in PathsOf(db.rows)

(***************************************************************************)
(* C12  As claimed: when sudo is refused, or the process it started ends   *)
(* in failure, the process that called request_sudo exits with a non-zero  *)
(* status.                                                                 *)
(***************************************************************************)
C12_AsClaimed ==
    [][(\/ pc = "sudo" /\ pc' = "exit"
        \/ args.depth = 1 /\ args'.depth = 0 /\ status # 0)
       => status' # 0]_vars

(***************************************************************************)
(* C13  As claimed: whenever the guard of setup applies (the process is    *)
(* the superuser's, or the store's directory is "/" or "/root") and its    *)
(* prompt is not answered with yes (declined, or no input), the step of    *)
(* main() under way, wipe_database included, ends the run with a non-zero  *)
(* exit and leaves the store file and its directory as they were.          *)
(***************************************************************************)
C13_AsClaimed ==
    (pc \in {"wipe", "setup"} /\ (args.euid0 \/ danger)) =>
        \A guardAns \in Answers \ {"yes"}, firstAns \in Answers :
            LET r == IF pc = "wipe"
                     THEN wipe_database(dirExists, dirOther, db, args.euid0,
                                        danger, guardAns, firstAns)
                     ELSE setup_bandicoot_directory(dirExists, db, args.euid0,
                                                    danger, guardAns, firstAns)
            IN /\ r.outcome \in {"exit1", "EOFError"}
               /\ r.db = db
               /\ r.dirExists = dirExists

(***************************************************************************)
(* C14  As claimed: when the store's directory does not exist and          *)
(* --db-path was given (and the guard does not apply), setup creates the   *)
(* directory whatever would be answered to the first-run prompt, which is  *)
(* not asked.                                                              *)
(***************************************************************************)
C14_AsClaimed ==
    [][(/\ pc = "setup"
        /\ pc' # "setup"
        /\ args.explicit
        /\ ~dirExists
        /\ ~args.euid0
        /\ ~danger)
       => dirExists' /\ pc' = "perm"]_vars

(***************************************************************************)
(* C15  As claimed: with --wipe and every prompt answered yes, the wipe    *)
(* step leaves an empty store with the table and its eight columns,        *)
(* whatever the store held, and when store_crash_logs then returns every   *)
(* report file found was inserted as new and the total is their number.    *)
(***************************************************************************)
C15_AsClaimed ==
    [][/\ (/\ pc = "wipe"
           /\ pc' \notin {"wipe", "exit"}
           /\ err' # "EOFError")
          => pc' = "setup" /\ dirExists' /\ db' = FullStore
       /\ (args.wipe /\ pc = "insert" /\ pc' = "done")
          => /\ total_logs' = Len(glob_all(files))
             /\ Len(new_logs') = Len(glob_all(files))
             /\ PathsOf(db'.rows) = Range(glob_all(files))]_vars

(***************************************************************************)
(* C18  As claimed: wipe_database on a directory that holds entries other  *)
(* than the store file leaves the directory in place and, with the prompts *)
(* answered yes, goes on to setup with the store created anew.             *)
(***************************************************************************)
C18_AsClaimed ==
    [][(/\ pc = "wipe"
        /\ pc' \notin {"wipe", "exit"}
        /\ err' # "EOFError"
        /\ dirExists
        /\ dirOther)
       => /\ pc' = "setup"
          /\ dirExists'
          /\ db'.file
          /\ db'.table
          /\ db'.rows = {}]_vars

(***************************************************************************)
(* C16  No step but the wipe of a run with --wipe removes a stored record  *)
(* or changes the value it has in any column other than notation (id,      *)
(* crash_time, process_name, exception_type, termination_reason,           *)
(* file_path, log_content), whatever became of the file it was parsed      *)
(* from; a record enters the store with notation ''; a record's notation   *)
(* changes only in an update() of the viewer with that record's id, and    *)
(* such an update leaves the records of every other id as they were.       *)
(***************************************************************************)
C16_RecordsImmutable ==
    [][((db' # db \/ pending' # pending) /\ ~(pc = "wipe" /\ pc' # "wipe")) =>
          /\ \A r \in db.rows :
                \E q \in db'.rows :
                    /\ q.id = r.id
                    /\ \A c \in DOMAIN r \ {"notation"} : q[c] = r[c]
                    /\ ("notation" \in DOMAIN r /\ q.notation # r.notation)
                       => \E n \in Notations : ViewerUpdate(r.id, n)
          /\ \A q \in db'.rows :
                q.id \notin IdsOf(db.rows) => q \in pending
          /\ \A q \in (pending' \ pending) \cup (db'.rows \ db.rows) :
                ("notation" \in DOMAIN q /\ q.id \notin IdsOf(db.rows))
                => q.notation = EmptyStr
          /\ \A log_id \in LogIds, n \in Notations :
                ViewerUpdate(log_id, n) =>
                    \A r \in db.rows : r.id # log_id => r \in db'.rows]_vars

\* A run has completed over a file that was a directory when its record
\* was stored and is a text file now; the record is still the error record,
\* with the notation the viewer gave it, beside another record without one.
C16_Witness ==
    /\ pc = "done"
    /\ ~direct
    /\ files["u1"].kind = "text"
    /\ \E r \in db.rows :
          /\ r.file_path = "u1"
          /\ r.exception_type = EISDIR
          /\ r.notation = <<"note">>
    /\ \E r \in db.rows : r.file_path = "s1" /\ r.notation = EmptyStr

(***************************************************************************)
(* C17  As claimed: setup_bandicoot_directory, its prompts answered yes,   *)
(* on any store without the table (no store file, or a store file that    *)
(* holds no table) completes without an exception and leaves the table     *)
(* with its eight columns.                                                 *)
(***************************************************************************)
C17_AsClaimed ==
    [][(/\ pc = "setup"
        /\ pc' \notin {"setup", "exit"}
        /\ err' # "EOFError"
        /\ ~db.table)
       => /\ pc' = "perm"
          /\ db'.table
          /\ Range(db'.columns) = Range(FullCols)
          /\ Len(db'.columns) = 8]_vars

(***************************************************************************)
(* C19  A run interrupted inside store_crash_logs, at any position of the  *)
(* batch and before or after the commit, leaves the store with its table,  *)
(* no open transaction and no two rows of one file_path; the next run      *)
(* without --wipe over the same set of report files does not fail on the   *)
(* UNIQUE constraint, and when it completes the store holds exactly one    *)
(* row for each report file found.                                         *)
(***************************************************************************)
RowsOf(p) == {r \in db.rows : r.file_path = p}

C19_InterruptedRunResumes ==
    /\ (pc = "crash" /\ err = "KeyboardInterrupt") =>
          /\ pending = {}
          /\ db.table
          /\ \A p \in Paths : Cardinality(RowsOf(p)) <= 1
    /\ prev.cut >= 0 =>
          /\ pc = "crash" => err # "UNIQUE constraint failed"
          /\ pc = "done" =>
                \A p \in Range(glob_all(files)) : Cardinality(RowsOf(p)) = 1

\* The run before was interrupted with one insert executed and not yet
\* committed; this run has completed, inserting both files' records.
C19_Witness ==
    /\ pc = "done"
    /\ prev.cut = 1
    /\ ~prev.valid
    /\ Len(new_logs) = 2
    /\ Cardinality(db.rows) = 2

(***************************************************************************)
(* C20  As claimed: a field is resolved only by a line that begins with    *)
(* one of its labels and a colon; when no line of the file begins so, the  *)
(* field is "Unknown", also when a label of the field stands later in a    *)
(* line, after other text.                                                 *)
(***************************************************************************)
C20_AsClaimed ==
    HasParsedText =>
        \A field \in FieldNames :
            (\A i \in 1..Len(SourceLines) : ~BeginsWithLabel(field, SourceLines[i]))
            => Parsed[field] = Unknown

====
